---- MODULE Spec2Model ----
(***************************************************************************)
(* Model of the Cloudflare webhook endpoint of sentry,                     *)
(* src/src/sentry/integrations/cloudflare/webhook.py.                      *)
(*                                                                         *)
(* CloudflareWebhookEndpoint.post is one action (Post): it takes a request *)
(* (headers, session user, raw body) and the directory state, and leaves   *)
(* the response together with a record of what the handler did (stages     *)
(* passed, error tags logged, wizard steps run, directory lookups made).   *)
(* The endpoint keeps no state of its own; the directory (organizations,   *)
(* projects, keys) is the database the handler reads.                      *)
(*                                                                         *)
(* verify is also exercised on its own (SpecVerify) over payloads, keys    *)
(* and signatures of every shape.                                          *)
(***************************************************************************)
EXTENDS Integers, Sequences, FiniteSets, TLC

VARIABLES directory, request, response, pc, vin, vout

vars == <<directory, request, response, pc, vin, vout>>

-----------------------------------------------------------------------------
(* Bounds of the model *)

\* number of API keys of a project that has keys
MaxKeys == 2
\* number of hex characters of a digest (64 for sha256; the model keeps the
\* digest a fixed-width hex string of this many characters)
DigestLen == 6

-----------------------------------------------------------------------------
(* Values *)

\* a key that is missing from a JSON object, or a header that was not sent
Absent == "<absent>"
\* a JSON value that is not an object where the handler subscripts it or
\* calls .get on it (null, a string, a number, a list)
NonDict == "<non-object>"
\* request.user of an anonymous caller
Anon == "anonymous"
TheUser == "user-1"

EmptyMap == [x \in {} |-> ""]

Put(f, k, v) == [x \in (DOMAIN f) \cup {k} |-> IF x = k THEN v ELSE f[x]]

Idx(seq, v) == CHOOSE i \in 1..Len(seq) : seq[i] = v

Range(seq) == {seq[i] : i \in 1..Len(seq)}

InjSeqs(S) == {s \in UNION {[1..n -> S] : n \in 0..Cardinality(S)} :
                 \A i, j \in 1..Len(s) : s[i] = s[j] => i = j}

\* six.text_type(id): the decimal text of an integer id
text_type(n) == ToString(n)

-----------------------------------------------------------------------------
(* The JSON payload.  A body is the raw text of the request; it is kept as
   the structure its text spells (fmt tells apart two texts of the same
   JSON value, such as different whitespace).  json.loads drops fmt. *)

JsonKinds == <<"malformed", "non-object", "object">>

Events == <<Absent, "", "preview", "option-change:account",
            "option-change:organization", "option-change:project",
            "something-else">>

AppIds == <<Absent, "", "local", "some-real-app", NonDict>>

GoodToken == "good-token"
BadToken == "bad-token"
Tokens == <<Absent, NonDict, GoodToken, BadToken>>

OptionNames == <<"organization", "project", "dsn">>

\* the values a client may send for each option (besides leaving it out)
OptionValues == [organization |-> <<"1", "2">>,
                 project |-> <<"11", "21">>,
                 dsn |-> <<"stale-dsn">>]

Frag(order, enum) == [order |-> order, enum |-> enum]

\* schema fragments a request may already carry from an earlier round
StaleSchema == [x \in {"project", "dsn"} |->
                  IF x = "project" THEN Frag(2, <<"99">>)
                  ELSE Frag(3, <<"stale-dsn">>)]

PreSchemas == <<EmptyMap, StaleSchema>>

OptionMaps == {f \in UNION {[D -> {"1", "2", "11", "21", "stale-dsn"}] :
                               D \in SUBSET Range(OptionNames)} :
                 \A k \in DOMAIN f : f[k] \in Range(OptionValues[k])}

NoInstall == [present |-> FALSE, hasSchema |-> FALSE, hasOptions |-> FALSE,
              options |-> EmptyMap, schema |-> EmptyMap]

OptCode(o, k) == IF k \in DOMAIN o THEN Idx(OptionValues[k], o[k]) ELSE 0

InstallCode(i) ==
    (IF i.present THEN 1 ELSE 0)
    + 2 * ((IF i.hasSchema THEN 1 ELSE 0)
    + 2 * ((IF i.hasOptions THEN 1 ELSE 0)
    + 2 * (OptCode(i.options, "organization")
    + 3 * (OptCode(i.options, "project")
    + 3 * (OptCode(i.options, "dsn")
    + 2 * (Idx(PreSchemas, i.schema) - 1))))))

\* the raw bytes of a body, as a number: distinct texts have distinct codes
BodyCode(b) ==
    (Idx(JsonKinds, b.json) - 1)
    + 3 * (b.fmt
    + 2 * ((Idx(Events, b.event) - 1)
    + 7 * ((Idx(AppIds, b.app_id) - 1)
    + 5 * ((Idx(Tokens, b.token) - 1)
    + 4 * InstallCode(b.install)))))

NumBodyCodes == 3 * 2 * 7 * 5 * 4 * 288

-----------------------------------------------------------------------------
(* Secrets and HMAC *)

TestKey == "test-key"
\* options.get('cloudflare.secret-key')
ConfiguredKey == "configured-secret-key"
OtherKey == "some-other-key"
Keys == <<TestKey, ConfiguredKey, OtherKey>>

HexDigits == 0..15

RECURSIVE Pow16(_)
Pow16(n) == IF n = 0 THEN 1 ELSE 16 * Pow16(n - 1)

\* n as a hex string of w characters (most significant first)
Hex(n, w) == [i \in 1..w |-> (n \div Pow16(w - i)) % 16]

\* hmac.new(key, msg, sha256).hexdigest(): a keyed digest of the raw bytes.
\* SHA-256 itself is replaced by a collision-free keyed code of the bounded
\* payloads, written as a hex string of DigestLen characters.
hmac_sha256_hex(payload, key) ==
    Hex((Idx(Keys, key) - 1) * NumBodyCodes + BodyCode(payload) + 4660, DigestLen)

\* x ^ y and x | y on the codes of two characters
BitXor == [a \in HexDigits |-> [b \in HexDigits |->
              ((a + b) % 2)
              + 2 * (((a \div 2) + (b \div 2)) % 2)
              + 4 * (((a \div 4) + (b \div 4)) % 2)
              + 8 * (((a \div 8) + (b \div 8)) % 2)]]

BitOr == [a \in HexDigits |-> [b \in HexDigits |->
             (IF a % 2 = 1 \/ b % 2 = 1 THEN 1 ELSE 0)
             + 2 * (IF (a \div 2) % 2 = 1 \/ (b \div 2) % 2 = 1 THEN 1 ELSE 0)
             + 4 * (IF (a \div 4) % 2 = 1 \/ (b \div 4) % 2 = 1 THEN 1 ELSE 0)
             + 8 * (IF (a \div 8) % 2 = 1 \/ (b \div 8) % 2 = 1 THEN 1 ELSE 0)]]

\* result |= ord(x) ^ ord(y) over zip(val1, val2), from position i on
RECURSIVE XorAccumulate(_, _, _, _)
XorAccumulate(val1, val2, i, result) ==
    IF i > Len(val1) \/ i > Len(val2) THEN result
    ELSE XorAccumulate(val1, val2, i + 1, BitOr[result][BitXor[val1[i]][val2[i]]])

\* a comparison that forgets the length check: zip stops at the shorter
constant_time_compare_nolen(val1, val2) == XorAccumulate(val1, val2, 1, 0) = 0

\* django.utils.crypto.constant_time_compare
constant_time_compare(val1, val2) ==
    IF Len(val1) # Len(val2) THEN FALSE
    ELSE XorAccumulate(val1, val2, 1, 0) = 0

verify(payload, key, signature) ==
    constant_time_compare(signature, hmac_sha256_hex(payload, key))

-----------------------------------------------------------------------------
(* The directory and the token service the handler calls.  A directory is
   [orgs, projects, nkeys]: the organizations the user can see with scope
   project:write, in the order the directory lists them; per organization
   the projects of it the user can see through their teams, in listing
   order; per project the number of its API keys. *)

OrgIds == {1, 2}

\* the projects that exist in organization o
ProjectsOf(o) == IF o = 1 THEN {11, 12} ELSE {10 * o + 1}

ProjectIds == UNION {ProjectsOf(o) : o \in OrgIds}

\* the keys of project p, in listing order: ProjectKey rows
KeysOfProject(dir, p) ==
    [i \in 1..dir.nkeys[p] |-> [project_id |-> p, public_key |-> 100 * p + i]]

is_authenticated(user) == user # Anon

\* Organization.objects.get_for_user(user, scope='project:write')
Organization_get_for_user(dir, user) ==
    IF is_authenticated(user) THEN dir.orgs ELSE <<>>

\* Project.objects.filter(organization=org,
\*     team__in=Team.objects.get_for_user(org, user, scope='project:write'));
\* org is <<>> (None) or <<id>>
Project_filter(dir, org, user) ==
    IF org = <<>> \/ ~is_authenticated(user) THEN <<>>
    ELSE dir.projects[org[1]]

\* ProjectKey.objects.filter(project=project); project is <<>> or <<id>>
ProjectKey_filter(dir, project) ==
    IF project = <<>> THEN <<>> ELSE KeysOfProject(dir, project[1])

\* ProjectKey.get_dsn(public=True)
get_dsn(key) ==
    "https://" \o ToString(key.public_key) \o "@sentry.io/" \o ToString(key.project_id)

\* TokenAuthentication().authenticate_credentials(token): the (user, token)
\* pair of a token that resolves; AuthenticationFailed is raised otherwise
authenticate_credentials(token) ==
    IF token = GoodToken
    THEN [raised |-> "", user |-> TheUser]
    ELSE [raised |-> "AuthenticationFailed", user |-> Anon]

-----------------------------------------------------------------------------
(* Lookups by the ids of the payload *)

HasOption(inst, k) == inst.present /\ inst.hasOptions /\ k \in DOMAIN inst.options

\* a search that falls back on the first element when none has the id
FirstWithId_or_first(seq, id) ==
    IF \E i \in 1..Len(seq) : text_type(seq[i]) = id
    THEN <<seq[CHOOSE i \in 1..Len(seq) :
                 /\ text_type(seq[i]) = id
                 /\ \A j \in 1..(i - 1) : text_type(seq[j]) # id]>>
    ELSE IF seq # <<>> THEN <<seq[1]>> ELSE <<>>

\* the first element of seq whose text is id, as <<x>>; <<>> when there is none
FirstWithId(seq, id) ==
    IF \E i \in 1..Len(seq) : text_type(seq[i]) = id
    THEN <<seq[CHOOSE i \in 1..Len(seq) :
                 /\ text_type(seq[i]) = id
                 /\ \A j \in 1..(i - 1) : text_type(seq[j]) # id]>>
    ELSE <<>>

\* a lookup that takes whatever id the payload names, visible or not
organization_from_json_any(user, inst, dir) ==
    IF ~HasOption(inst, "organization")
    THEN [val |-> <<>>, lookups |-> <<>>]
    ELSE [val |-> IF \E o \in OrgIds : text_type(o) = inst.options["organization"]
                  THEN <<CHOOSE o \in OrgIds : text_type(o) = inst.options["organization"]>>
                  ELSE <<>>,
          lookups |-> <<"organizations">>]

organization_from_json(user, inst, dir) ==
    IF ~HasOption(inst, "organization")
    THEN [val |-> <<>>, lookups |-> <<>>]
    ELSE [val |-> FirstWithId(Organization_get_for_user(dir, user),
                              inst.options["organization"]),
          lookups |-> <<"organizations">>]

\* a lookup that finds the project by its id alone, whatever organization
\* it is in and whether or not the caller sees it
project_from_json_unscoped(user, inst, dir) ==
    IF ~HasOption(inst, "project")
    THEN [val |-> <<>>, lookups |-> <<>>]
    ELSE [val |-> IF \E q \in ProjectIds : text_type(q) = inst.options["project"]
                  THEN <<CHOOSE q \in ProjectIds : text_type(q) = inst.options["project"]>>
                  ELSE <<>>,
          lookups |-> <<"projects">>]

project_from_json(user, inst, dir) ==
    IF ~HasOption(inst, "project")
    THEN [val |-> <<>>, lookups |-> <<>>]
    ELSE LET org == organization_from_json(user, inst, dir)
             projects == Project_filter(dir, org.val, user)
         IN [val |-> FirstWithId(projects, inst.options["project"]),
             lookups |-> org.lookups \o <<"projects">>]

-----------------------------------------------------------------------------
(* The wizard steps.  Each takes the caller, data['install'] as it is when
   the step is entered, the directory, and the lookups and steps so far; it
   gives the response (or the exception raised), data['install'] as the
   step leaves it, and the lookups and steps made. *)

StepResult(status, raised, proceed, hasInstall, inst, lk, st) ==
    [status |-> status, raised |-> raised, proceed |-> proceed,
     hasInstall |-> hasInstall, install |-> inst, lookups |-> lk, steps |-> st]

\* Response({'install': data['install'], 'proceed': True})
Proceed(inst, lk, st) ==
    IF inst.present THEN StepResult(200, "", "true", TRUE, inst, lk, st)
    ELSE StepResult(0, "KeyError", Absent, FALSE, inst, lk, st)

\* Response({'proceed': False}, 401)
Unauthorized(inst, lk, st) == StepResult(401, "", "false", FALSE, inst, lk, st)

Raised(exc, inst, lk, st) == StepResult(0, exc, Absent, FALSE, inst, lk, st)

requires_auth(user) == is_authenticated(user)

\* data['install']['schema']['properties'][name] can be assigned
CanSetSchema(inst) == inst.present /\ inst.hasSchema

\* data['install']['options'][name] can be assigned
CanSetOption(inst) == inst.present /\ inst.hasOptions

SetSchema(inst, name, frag) == [inst EXCEPT !.schema = Put(@, name, frag)]

SetOption(inst, name, v) == [inst EXCEPT !.options = Put(@, name, v)]

Texts(seq) == [i \in 1..Len(seq) |-> text_type(seq[i])]

on_project_change(user, inst, dir, lk, st) ==
    IF ~requires_auth(user) THEN Unauthorized(inst, lk, st)
    ELSE LET project == project_from_json(user, inst, dir)
             keys == ProjectKey_filter(dir, project.val)
             lk1 == lk \o project.lookups \o <<"keys">>
             st1 == Append(st, "project")
             enum == [i \in 1..Len(keys) |-> get_dsn(keys[i])]
         IN IF ~CanSetSchema(inst) THEN Raised("KeyError", inst, lk1, st1)
            ELSE LET inst1 == SetSchema(inst, "dsn", Frag(3, enum))
                 IN IF keys # <<>>
                    THEN IF ~CanSetOption(inst1)
                         THEN Raised("KeyError", inst1, lk1, st1)
                         ELSE Proceed(SetOption(inst1, "dsn", enum[1]), lk1, st1)
                    ELSE Proceed(inst1, lk1, st1)

\* an organization step that selects the last project, not the first
on_organization_change_last(user, inst, dir, lk, st) ==
    IF ~requires_auth(user) THEN Unauthorized(inst, lk, st)
    ELSE LET org == organization_from_json(user, inst, dir)
             projects == Project_filter(dir, org.val, user)
             lk1 == lk \o org.lookups \o <<"projects">>
             st1 == Append(st, "organization")
             enum == Texts(projects)
         IN IF ~CanSetSchema(inst) THEN Raised("KeyError", inst, lk1, st1)
            ELSE LET inst1 == SetSchema(inst, "project", Frag(2, enum))
                 IN IF projects # <<>>
                    THEN IF ~CanSetOption(inst1)
                         THEN Raised("KeyError", inst1, lk1, st1)
                         ELSE on_project_change(user,
                                  SetOption(inst1, "project", enum[Len(enum)]),
                                  dir, lk1, st1)
                    ELSE Proceed(inst1, lk1, st1)

on_organization_change(user, inst, dir, lk, st) ==
    IF ~requires_auth(user) THEN Unauthorized(inst, lk, st)
    ELSE LET org == organization_from_json(user, inst, dir)
             projects == Project_filter(dir, org.val, user)
             lk1 == lk \o org.lookups \o <<"projects">>
             st1 == Append(st, "organization")
             enum == Texts(projects)
         IN IF ~CanSetSchema(inst) THEN Raised("KeyError", inst, lk1, st1)
            ELSE LET inst1 == SetSchema(inst, "project", Frag(2, enum))
                 IN IF projects # <<>>
                    THEN IF ~CanSetOption(inst1)
                         THEN Raised("KeyError", inst1, lk1, st1)
                         ELSE on_project_change(user,
                                  SetOption(inst1, "project", enum[1]),
                                  dir, lk1, st1)
                    ELSE Proceed(inst1, lk1, st1)

\* an account step that goes on to the organization step whether or not
\* the caller sees an organization
on_account_change_always_advances(user, inst, dir, lk, st) ==
    IF ~requires_auth(user) THEN Unauthorized(inst, lk, st)
    ELSE LET organizations == Organization_get_for_user(dir, user)
             lk1 == Append(lk, "organizations")
             st1 == Append(st, "account")
             enum == Texts(organizations)
         IN IF ~CanSetSchema(inst) THEN Raised("KeyError", inst, lk1, st1)
            ELSE LET inst1 == SetSchema(inst, "organization", Frag(1, enum))
                 IN IF organizations # <<>> /\ ~CanSetOption(inst1)
                    THEN Raised("KeyError", inst1, lk1, st1)
                    ELSE on_organization_change(user,
                             IF organizations # <<>>
                             THEN SetOption(inst1, "organization", enum[1])
                             ELSE inst1,
                             dir, lk1, st1)

on_account_change(user, inst, dir, lk, st) ==
    IF ~requires_auth(user) THEN Unauthorized(inst, lk, st)
    ELSE LET organizations == Organization_get_for_user(dir, user)
             lk1 == Append(lk, "organizations")
             st1 == Append(st, "account")
             enum == Texts(organizations)
         IN IF ~CanSetSchema(inst) THEN Raised("KeyError", inst, lk1, st1)
            ELSE LET inst1 == SetSchema(inst, "organization", Frag(1, enum))
                 IN IF organizations # <<>>
                    THEN IF ~CanSetOption(inst1)
                         THEN Raised("KeyError", inst1, lk1, st1)
                         ELSE on_organization_change(user,
                                  SetOption(inst1, "organization", enum[1]),
                                  dir, lk1, st1)
                    ELSE Proceed(inst1, lk1, st1)

on_preview(user, inst, dir, lk, st) ==
    IF ~is_authenticated(user) THEN Proceed(inst, lk, Append(st, "preview"))
    ELSE on_account_change(user, inst, dir, lk, Append(st, "preview"))

-----------------------------------------------------------------------------
(* The request handler *)

\* a parser that takes a malformed text for an empty object
json_loads_lenient(payload) ==
    [raised |-> "", data |-> [kind |-> "object", event |-> payload.event,
         app_id |-> payload.app_id, token |-> payload.token,
         install |-> payload.install]]

\* json.loads(payload): ValueError on a malformed text; else the value,
\* which forgets how the text was laid out
json_loads(payload) ==
    IF payload.json = "malformed"
    THEN [raised |-> "ValueError", data |-> [kind |-> "malformed", event |-> Absent,
              app_id |-> Absent, token |-> Absent, install |-> NoInstall]]
    ELSE [raised |-> "", data |-> [kind |-> payload.json, event |-> payload.event,
              app_id |-> payload.app_id, token |-> payload.token,
              install |-> payload.install]]

\* data['authentications']['account']['token']['token'], then the token
\* service; only KeyError is caught
authenticate_from_json_token(data) ==
    IF data.kind # "object" \/ data.token = NonDict
    THEN [raised |-> "TypeError", user |-> Anon, consulted |-> FALSE]
    ELSE IF data.token = Absent
    THEN [raised |-> "", user |-> Anon, consulted |-> FALSE]
    ELSE LET r == authenticate_credentials(data.token)
         IN [raised |-> r.raised, user |-> r.user, consulted |-> TRUE]

NoHeader == [sent |-> FALSE, hex |-> <<>>]

Header(hex) == [sent |-> TRUE, hex |-> hex]

\* `not signature`, `not variant`: the header is missing or empty
NotSignature(signature) == ~signature.sent \/ signature.hex = <<>>

\* a check that takes an empty variant header for a variant
NotVariant_missing_only(variant) == variant = Absent

NotVariant(variant) == variant \in {Absent, ""}

InvalidJson == "cloudflare.webhook.invalid-json"
InvalidSignature == "cloudflare.webhook.invalid-signature"
InvalidVariant == "cloudflare.webhook.invalid-variant"

StageNames == <<"parse", "token", "signature-header", "variant-header",
                "select-secret", "test-guard", "verify", "dispatch">>

\* app_id not in ('local', '') and variant == 'test'
TestKeyMisuse(app_id, variant) == app_id \notin {"local", ""} /\ variant = "test"

\* the if/elif chain on the variant: the key, or Absent for no key
SelectKey(variant) ==
    IF variant = "test" THEN TestKey
    ELSE IF variant = "1" THEN ConfiguredKey
    ELSE Absent

\* the dispatch on the event, after the signature is verified
Dispatch(event, user, inst, dir) ==
    IF event = "option-change:account"
    THEN on_account_change(user, inst, dir, <<>>, <<>>)
    ELSE IF event = "option-change:organization"
    THEN on_organization_change(user, inst, dir, <<>>, <<>>)
    ELSE IF event = "option-change:project"
    THEN on_project_change(user, inst, dir, <<>>, <<>>)
    ELSE IF event = "preview"
    THEN on_preview(user, inst, dir, <<>>, <<>>)
    ELSE Proceed(inst, <<>>, <<"echo">>)

\* what post leaves: the response (status, proceed, whether the body holds
\* install) or the exception raised out of post (status 0), data['install']
\* as it is at the end, and what was done on the way
Outcome(req) ==
    [status |-> 0, raised |-> "", proceed |-> Absent, hasInstall |-> FALSE,
     install |-> NoInstall, errors |-> <<>>, info |-> <<>>, stages |-> <<>>,
     steps |-> <<>>, lookups |-> <<>>, user |-> req.user, key |-> Absent,
     token_consulted |-> FALSE, verified |-> FALSE]

BadRequest(out, tag, stages) ==
    [out EXCEPT !.status = 400, !.errors = <<tag>>, !.stages = stages]

Raise(out, exc, stages) == [out EXCEPT !.raised = exc, !.stages = stages]

\* lines 194-229: from the header checks to the dispatch
post_checked(req, dir, data, out, st) ==
    LET signature == req.signature
        variant == req.variant
        event == data.event
        key == SelectKey(variant)
        st3 == Append(st, "signature-header")
        st4 == Append(st3, "variant-header")
        st5 == Append(st4, "select-secret")
        st6 == Append(st5, "test-guard")
        st7 == Append(st6, "verify")
        st8 == Append(st7, "dispatch")
    IN IF NotSignature(signature) THEN BadRequest(out, InvalidSignature, st3)
       ELSE IF NotVariant(variant) THEN BadRequest(out, InvalidVariant, st4)
       ELSE IF key = Absent THEN BadRequest(out, InvalidVariant, st5)
       ELSE IF data.app_id = NonDict
       THEN Raise([out EXCEPT !.key = key], "AttributeError", st6)
       ELSE IF TestKeyMisuse(data.app_id, variant)
       THEN BadRequest([out EXCEPT !.key = key], InvalidVariant, st6)
       ELSE IF ~verify(req.body, key, signature.hex)
       THEN BadRequest([out EXCEPT !.key = key], InvalidSignature, st7)
       ELSE LET r == Dispatch(event, out.user, data.install, dir)
            IN [out EXCEPT !.key = key, !.verified = TRUE, !.stages = st8,
                           !.status = r.status, !.raised = r.raised,
                           !.proceed = r.proceed, !.hasInstall = r.hasInstall,
                           !.install = r.install, !.steps = r.steps,
                           !.lookups = r.lookups]

post(req, dir) ==
    LET parsed == json_loads(req.body)
        data == parsed.data
        out0 == Outcome(req)
    IN IF parsed.raised # "" THEN BadRequest(out0, InvalidJson, <<"parse">>)
       ELSE LET anon == ~is_authenticated(req.user)
                auth == IF anon THEN authenticate_from_json_token(data)
                        ELSE [raised |-> "", user |-> req.user, consulted |-> FALSE]
                st == IF anon THEN <<"parse", "token">> ELSE <<"parse">>
                out1 == [out0 EXCEPT !.install = data.install, !.user = auth.user,
                                     !.token_consulted = auth.consulted]
            IN IF auth.raised # "" THEN Raise(out1, auth.raised, st)
               ELSE IF data.kind # "object" THEN Raise(out1, "AttributeError", st)
               ELSE post_checked(req, dir, data,
                                 [out1 EXCEPT !.info = <<data.event>>], st)

-----------------------------------------------------------------------------
(* Requests and directories of the bounded model *)

Directories ==
    [orgs : InjSeqs(OrgIds),
     projects : {f \in [OrgIds -> InjSeqs(ProjectIds)] :
                   \A o \in OrgIds : Range(f[o]) \subseteq ProjectsOf(o)},
     nkeys : [ProjectIds -> {0, MaxKeys}]]

\* the directory in which the user sees everything, and every project has keys
FullDirectory ==
    [orgs |-> <<2, 1>>,
     projects |-> [o \in OrgIds |-> IF o = 1 THEN <<12, 11>> ELSE <<21>>],
     nkeys |-> [p \in ProjectIds |-> MaxKeys]]

Variants == {Absent, "", "test", "1", "2"}

\* one character of a hex string changed
Tamper(hex, i) == [hex EXCEPT ![i] = (@ + 1) % 16]

\* the signatures a client may send with a body: none, the empty string,
\* the digest under the test key and under the configured key, each with
\* its last character changed, and the digest of the same JSON value laid
\* out differently
Signatures(body) ==
    {NoHeader, Header(<<>>),
     Header(hmac_sha256_hex(body, TestKey)),
     Header(hmac_sha256_hex(body, ConfiguredKey)),
     Header(Tamper(hmac_sha256_hex(body, TestKey), DigestLen)),
     Header(Tamper(hmac_sha256_hex(body, ConfiguredKey), DigestLen)),
     Header(hmac_sha256_hex([body EXCEPT !.fmt = 1], ConfiguredKey))}

Body(json, event, app_id, token, install) ==
    [json |-> json, fmt |-> 0, event |-> event, app_id |-> app_id,
     token |-> token, install |-> install]

NoBody == Body("malformed", Absent, Absent, Absent, NoInstall)

NoRequest == [signature |-> NoHeader, variant |-> Absent, user |-> Anon,
              body |-> NoBody]

\* an install object with schema.properties and options
Install(options, schema) ==
    [present |-> TRUE, hasSchema |-> TRUE, hasOptions |-> TRUE,
     options |-> options, schema |-> schema]

\* the install objects of a wizard round: any organization and project
\* selected or not, either fresh or carrying the dsn option and the schema
\* fragments of an earlier round
RoundInstalls ==
    {Install(o, IF "dsn" \in DOMAIN o THEN StaleSchema ELSE EmptyMap) :
        o \in OptionMaps}

\* payloads with a part missing: no install, no install.schema.properties,
\* no install.options
PartialInstalls ==
    {NoInstall,
     [Install(EmptyMap, EmptyMap) EXCEPT !.hasSchema = FALSE],
     [Install(EmptyMap, EmptyMap) EXCEPT !.hasOptions = FALSE]}

\* bodies that try every event and install payload, from an anonymous
\* caller, a caller with a token that resolves, and a session user
WizardBodies ==
    {Body("object", e, Absent, t, i) :
        e \in {"preview", "option-change:account", "option-change:organization",
               "option-change:project", "something-else"},
        t \in {Absent, GoodToken},
        i \in RoundInstalls \cup PartialInstalls}

\* bodies that try every shape of the parts read before the dispatch
GateBodies ==
    {NoBody, Body("non-object", Absent, Absent, Absent, NoInstall)} \cup
    {Body("object", e, a, t, Install(EmptyMap, EmptyMap)) :
        e \in {Absent, "", "option-change:account", "preview"},
        a \in Range(AppIds), t \in Range(Tokens)}

NoResponse == Outcome(NoRequest)

Init ==
    /\ directory \in Directories
    /\ request = NoRequest
    /\ response = NoResponse
    /\ pc = "idle"
    /\ vin = <<>>
    /\ vout = FALSE

\* CloudflareWebhookEndpoint.post on one request
Handle(req) ==
    /\ request' = req
    /\ response' = post(request', directory)
    /\ pc' = "responded"
    /\ UNCHANGED <<directory, vin, vout>>

\* a request of the wizard, signed under the configured key or with that
\* signature tampered
PostWizard ==
    /\ pc = "idle"
    /\ \E b \in WizardBodies, u \in {Anon, TheUser}, good \in BOOLEAN :
          /\ (u = TheUser => b.token = Absent)
          /\ LET h == hmac_sha256_hex(b, ConfiguredKey)
             IN Handle([signature |-> Header(IF good THEN h ELSE Tamper(h, DigestLen)),
                        variant |-> "1", user |-> u, body |-> b])

\* a request with any headers and any shape of body
PostGate ==
    /\ pc = "idle"
    /\ directory = FullDirectory
    /\ \E b \in GateBodies, u \in {Anon, TheUser}, v \in Variants :
          \E sig \in Signatures(b) :
              Handle([signature |-> sig, variant |-> v, user |-> u, body |-> b])

\* the response is sent; the endpoint waits for the next request
NextRequest ==
    /\ pc = "responded"
    /\ pc' = "idle"
    /\ request' = NoRequest
    /\ response' = NoResponse
    /\ UNCHANGED <<directory, vin, vout>>

Next == PostWizard \/ PostGate \/ NextRequest

Spec == Init /\ [][Next]_vars

-----------------------------------------------------------------------------
(* verify on its own: payloads, keys and signatures of every shape *)

VerifyPayloads ==
    {NoBody,
     Body("object", "preview", "local", Absent, Install(EmptyMap, EmptyMap)),
     [Body("object", "preview", "local", Absent, Install(EmptyMap, EmptyMap))
        EXCEPT !.fmt = 1]}

\* the signatures tried against the digest d: d itself, d with one
\* character replaced by any other, every proper prefix of d, d with a
\* character appended, and the digests of the other payloads and keys
VerifySignatures(d) ==
    {d}
    \cup {[d EXCEPT ![i] = c] : i \in 1..Len(d), c \in HexDigits}
    \cup {SubSeq(d, 1, n) : n \in 0..(Len(d) - 1)}
    \cup {Append(d, c) : c \in {0, 15}}
    \cup {hmac_sha256_hex(p, k) : p \in VerifyPayloads, k \in Range(Keys)}

InitVerify ==
    /\ directory = FullDirectory
    /\ request = NoRequest
    /\ response = NoResponse
    /\ pc = "verify"
    /\ \E p \in VerifyPayloads, k \in Range(Keys) :
          \E g \in VerifySignatures(hmac_sha256_hex(p, k)) :
              vin = [payload |-> p, key |-> k, signature |-> g]
    /\ vout = FALSE

ApplyVerify ==
    /\ pc = "verify"
    /\ vout' = verify(vin.payload, vin.key, vin.signature)
    /\ pc' = "verified"
    /\ UNCHANGED <<directory, request, response, vin>>

NextVerify == ApplyVerify

SpecVerify == InitVerify /\ [][NextVerify]_vars

-----------------------------------------------------------------------------
(* What the claims speak of *)

Responded == pc = "responded"

\* the secret the variant header selects
SecretFor(variant) == IF variant = "test" THEN TestKey ELSE ConfiguredKey

\* the signature header is the hex HMAC-SHA256 of the raw body under the
\* secret selected by the variant header
SignatureMatches ==
    /\ request.variant \in {"test", "1"}
    /\ request.signature.sent
    /\ request.signature.hex =
           hmac_sha256_hex(request.body, SecretFor(request.variant))

\* the request is signed under a secret it may use: the signature matches,
\* and the test secret is used only by the apps '' and 'local'
ValidlySigned ==
    /\ SignatureMatches
    /\ request.body.json = "object"
    /\ request.body.app_id # NonDict
    /\ request.variant = "test" => request.body.app_id \in {"", "local"}

\* the caller has a session, or has none and sends a token that resolves
AuthenticatedCaller ==
    \/ request.user # Anon
    \/ request.body.json = "object" /\ request.body.token = GoodToken

StepEvents == {"option-change:account", "option-change:organization",
               "option-change:project"}

VisibleOrgTexts == {text_type(o) : o \in Range(directory.orgs)}

-----------------------------------------------------------------------------
(* C1: Signature gate.  For every request, a wizard step or the echo branch
   runs, and a 200 or 401 response is returned, only if the signature
   header equals the hex HMAC-SHA256 of the raw body under the secret the
   variant selects; a request whose signature does not match gets status
   400 with no install payload and no directory lookup. *)
C1_SignatureGate ==
    Responded =>
        /\ (response.steps # <<>> \/ response.status \in {200, 401})
               => SignatureMatches
        /\ ~SignatureMatches =>
               /\ response.status = 400
               /\ ~response.hasInstall
               /\ response.lookups = <<>>

-----------------------------------------------------------------------------
(* C2: verify is exact.  For all payloads P, secrets S and signatures G,
   verify(P, S, G) is true if and only if G is hmac_sha256_hex(P, S): the
   digest itself is accepted, and a signature that differs from it in a
   character, or in length, is refused. *)
C2_VerifyExact ==
    pc = "verified" =>
        (vout <=> vin.signature = hmac_sha256_hex(vin.payload, vin.key))

\* verify has refused a signature of the right length that differs from the
\* digest in exactly one character
C2_Witness ==
    /\ pc = "verified"
    /\ ~vout
    /\ Len(vin.signature) = DigestLen
    /\ Cardinality({i \in 1..DigestLen :
           vin.signature[i] # hmac_sha256_hex(vin.payload, vin.key)[i]}) = 1

-----------------------------------------------------------------------------
(* C3: Test-secret guard.  A request with variant 'test' reaches signature
   verification and dispatch only when the payload's app.id is '' or
   'local'; with any other app.id, or none at all, it gets 400 and no
   wizard step runs, whatever its signature. *)
C3_TestSecretGuard ==
    (Responded /\ request.variant = "test") =>
        /\ ("verify" \in Range(response.stages) \/ response.steps # <<>>)
               => request.body.app_id \in {"", "local"}
        /\ request.body.app_id \notin {"", "local"} =>
               /\ response.status = 400
               /\ response.steps = <<>>

-----------------------------------------------------------------------------
(* C4: A request whose body is not well-formed JSON gets status 400, logged
   as invalid-json, for every combination of signature and variant headers;
   no embedded token is resolved, no secret is selected and no directory
   lookup is made for it. *)
C4_MalformedJson ==
    (Responded /\ request.body.json = "malformed") =>
        /\ response.status = 400
        /\ response.raised = ""
        /\ response.errors = <<InvalidJson>>
        /\ response.stages = <<"parse">>
        /\ ~response.token_consulted
        /\ response.user = request.user
        /\ response.key = Absent
        /\ response.lookups = <<>>
        /\ response.steps = <<>>
        /\ ~response.hasInstall

\* a malformed body whose signature is the correct HMAC of the raw body
\* under the configured key was answered with 400
C4_Witness ==
    /\ Responded
    /\ request.body.json = "malformed"
    /\ request.variant = "1"
    /\ request.signature = Header(hmac_sha256_hex(request.body, ConfiguredKey))
    /\ response.status = 400

-----------------------------------------------------------------------------
(* C5: Header validation.  A well-formed-JSON request with a missing or
   empty signature header gets 400 with the error tag invalid-signature;
   one with a signature but a missing, empty or unknown variant gets 400
   with the error tag invalid-variant; the tags differ, the signature tag
   wins when both headers are missing, and variant '1' selects the
   configured secret. *)
C5_HeaderValidation ==
    (Responded /\ request.body.json # "malformed") =>
        /\ NotSignature(request.signature) =>
               /\ response.status = 400
               /\ response.errors = <<InvalidSignature>>
        /\ (~NotSignature(request.signature)
            /\ request.variant \notin {"test", "1"}) =>
               /\ response.status = 400
               /\ response.errors = <<InvalidVariant>>
        /\ InvalidSignature # InvalidVariant
        /\ (request.variant = "1" /\ response.key # Absent) =>
               response.key = ConfiguredKey

-----------------------------------------------------------------------------
(* C6: Auth guard.  A validly signed request from a caller with no session
   and no resolvable embedded token gets, for each of the three
   option-change events, status 401 with body {proceed: false}; the install
   payload is not modified and no directory lookup is made. *)
C6_AuthGuard ==
    (/\ Responded
     /\ ValidlySigned
     /\ ~AuthenticatedCaller
     /\ request.body.event \in StepEvents) =>
        /\ response.status = 401
        /\ response.proceed = "false"
        /\ ~response.hasInstall
        /\ response.install = request.body.install
        /\ response.lookups = <<>>

-----------------------------------------------------------------------------
(* C7: Cascade.  A validly signed 'option-change:account' request from an
   authenticated caller who sees at least one organization, whose first
   organization has a visible project, whose first project has a key, is
   answered in one request by the three steps account, organization,
   project: 200 with proceed true, install.options holding the id of the
   first organization, the id of its first project and the public DSN of
   that project's first key, and install.schema.properties holding the
   fragments 'organization', 'project' and 'dsn' with non-empty enums.
   The payload is one with install.schema.properties and install.options,
   the two objects the steps write into. *)
FirstOrg == directory.orgs[1]

FirstProject == directory.projects[FirstOrg][1]

C7_Cascade ==
    (/\ Responded
     /\ ValidlySigned
     /\ AuthenticatedCaller
     /\ request.body.event = "option-change:account"
     /\ CanSetSchema(request.body.install)
     /\ CanSetOption(request.body.install)
     /\ directory.orgs # <<>>
     /\ directory.projects[FirstOrg] # <<>>
     /\ directory.nkeys[FirstProject] > 0) =>
        /\ response.status = 200
        /\ response.proceed = "true"
        /\ response.hasInstall
        /\ response.steps = <<"account", "organization", "project">>
        /\ response.install.options =
               [organization |-> text_type(FirstOrg),
                project |-> text_type(FirstProject),
                dsn |-> get_dsn(KeysOfProject(directory, FirstProject)[1])]
        /\ {"organization", "project", "dsn"} \subseteq DOMAIN response.install.schema
        /\ \A k \in {"organization", "project", "dsn"} :
               response.install.schema[k].enum # <<>>

\* the cascade ran for a caller authenticated by the embedded token, whose
\* first organization and first project are not the ones with the least id,
\* over options left from an earlier round
C7_Witness ==
    /\ Responded
    /\ ValidlySigned
    /\ request.user = Anon
    /\ request.body.event = "option-change:account"
    /\ request.body.install.options =
           [organization |-> "1", project |-> "11", dsn |-> "stale-dsn"]
    /\ directory.orgs = <<2, 1>>
    /\ directory.nkeys[21] = MaxKeys
    /\ response.status = 200
    /\ response.install.options["project"] = "21"
    /\ response.steps = <<"account", "organization", "project">>

-----------------------------------------------------------------------------
(* C8: A validly signed 'option-change:account' request from an
   authenticated caller who sees no organization is answered 200 with
   proceed true; install.schema.properties gains an 'organization' fragment
   with an empty enum and nothing else changes: install.options is what the
   request sent, and no 'project' or 'dsn' fragment is added. *)
C8_NoOrganizations ==
    (/\ Responded
     /\ ValidlySigned
     /\ AuthenticatedCaller
     /\ request.body.event = "option-change:account"
     /\ CanSetSchema(request.body.install)
     /\ directory.orgs = <<>>) =>
        /\ response.status = 200
        /\ response.proceed = "true"
        /\ response.hasInstall
        /\ response.steps = <<"account">>
        /\ response.install.options = request.body.install.options
        /\ response.install.schema =
               Put(request.body.install.schema, "organization", Frag(1, <<>>))

\* the account step halted for a caller without organizations, on a request
\* that carried options, while the directory holds projects
C8_Witness ==
    /\ Responded
    /\ ValidlySigned
    /\ AuthenticatedCaller
    /\ request.body.event = "option-change:account"
    /\ directory.orgs = <<>>
    /\ directory.projects[1] # <<>>
    /\ request.body.install.options = [organization |-> "1", project |-> "11"]
    /\ response.status = 200
    /\ response.install.schema = [organization |-> Frag(1, <<>>)]

-----------------------------------------------------------------------------
(* C9: Embedded-token fallback.  When the caller has no session and the
   payload has no authentications.account.token.token field, or has one
   that the token service fails to resolve, the caller stays
   unauthenticated and handling goes on to the header checks with no error
   surfaced; a token that resolves makes the request proceed as the token's
   user; a caller with a session never has the token consulted. *)
C9_TokenFallback ==
    (Responded /\ request.body.json = "object") =>
        /\ (request.user = Anon /\ request.body.token # GoodToken) =>
               /\ response.user = Anon
               /\ "signature-header" \in Range(response.stages)
        /\ (request.user = Anon /\ request.body.token = GoodToken) =>
               response.user = TheUser
        /\ request.user # Anon =>
               /\ ~response.token_consulted
               /\ response.user = request.user

-----------------------------------------------------------------------------
(* C10: Not-found resolution.  organization_from_json gives None, without
   raising, when install.options.organization is absent or is no id of an
   organization the caller sees; project_from_json gives None when
   install.options.project is absent, is no visible project of the resolved
   organization, or the organization is not found.  The organization step
   or the project step entered with an unresolvable organization or
   project answers 200 with proceed true and an empty-enum fragment. *)
Caller ==
    IF request.user # Anon THEN request.user
    ELSE IF request.body.json = "object" /\ request.body.token = GoodToken
    THEN TheUser
    ELSE Anon

OrgUnresolvable ==
    \/ ~HasOption(request.body.install, "organization")
    \/ Caller = Anon
    \/ request.body.install.options["organization"] \notin VisibleOrgTexts

ProjectUnresolvable ==
    \/ ~HasOption(request.body.install, "project")
    \/ OrgUnresolvable
    \/ \A o \in OrgIds :
           text_type(o) = request.body.install.options["organization"] =>
               request.body.install.options["project"] \notin
                   {text_type(q) : q \in Range(directory.projects[o])}

C10_NotFound ==
    Responded =>
        /\ OrgUnresolvable =>
               organization_from_json(Caller, request.body.install, directory).val = <<>>
        /\ ProjectUnresolvable =>
               project_from_json(Caller, request.body.install, directory).val = <<>>
        /\ (/\ ValidlySigned
            /\ AuthenticatedCaller
            /\ CanSetSchema(request.body.install)
            /\ request.body.event = "option-change:organization"
            /\ OrgUnresolvable) =>
               /\ response.status = 200
               /\ response.raised = ""
               /\ response.proceed = "true"
               /\ response.steps = <<"organization">>
               /\ response.install =
                      SetSchema(request.body.install, "project", Frag(2, <<>>))
        /\ (/\ ValidlySigned
            /\ AuthenticatedCaller
            /\ CanSetSchema(request.body.install)
            /\ request.body.event = "option-change:project"
            /\ ProjectUnresolvable) =>
               /\ response.status = 200
               /\ response.raised = ""
               /\ response.proceed = "true"
               /\ response.steps = <<"project">>
               /\ response.install =
                      SetSchema(request.body.install, "dsn", Frag(3, <<>>))

\* the organization step halted on the id of an organization that has
\* projects but is not one the caller sees
C10_Witness ==
    /\ Responded
    /\ ValidlySigned
    /\ AuthenticatedCaller
    /\ request.body.event = "option-change:organization"
    /\ HasOption(request.body.install, "organization")
    /\ request.body.install.options["organization"] = "2"
    /\ directory.orgs = <<1>>
    /\ directory.projects[2] = <<21>>
    /\ response.status = 200
    /\ response.install.schema["project"].enum = <<>>

-----------------------------------------------------------------------------
(* C11: Preview.  A validly signed 'preview' request from a caller who is
   not authenticated is answered 200 with proceed true and the install
   payload as sent, never 401; from an authenticated caller it gets the
   response the same payload with event 'option-change:account', validly
   signed, gets against the same directory. *)
AsAccountChange(req) ==
    LET b == [req.body EXCEPT !.event = "option-change:account"]
    IN [req EXCEPT !.body = b,
                   !.signature = Header(hmac_sha256_hex(b, SecretFor(req.variant)))]

C11_Preview ==
    (Responded /\ ValidlySigned /\ request.body.event = "preview") =>
        /\ ~AuthenticatedCaller =>
               /\ response.status = 200
               /\ response.proceed = "true"
               /\ response.hasInstall
               /\ response.install = request.body.install
        /\ AuthenticatedCaller =>
               LET other == post(AsAccountChange(request), directory)
               IN /\ response.status = other.status
                  /\ response.raised = other.raised
                  /\ response.proceed = other.proceed
                  /\ response.hasInstall = other.hasInstall
                  /\ response.install = other.install

-----------------------------------------------------------------------------
(* C12: Unrecognized event.  A validly signed request whose event is none
   of 'preview', 'option-change:account', 'option-change:organization',
   'option-change:project' (a missing or empty event included) is answered
   200 with proceed true and the install payload as sent, whether or not
   the caller is authenticated, and no directory lookup is made. *)
C12_UnrecognizedEvent ==
    (/\ Responded
     /\ ValidlySigned
     /\ request.body.event \notin StepEvents \cup {"preview"}) =>
        /\ response.status = 200
        /\ response.proceed = "true"
        /\ response.hasInstall
        /\ response.install = request.body.install
        /\ response.lookups = <<>>

-----------------------------------------------------------------------------
(* C13: Cascade discipline.  Within one request the wizard steps run in the
   order account, organization, project, starting from the step the event
   names, each at most once and never backwards.  A step goes on to the
   next one exactly when the enum of the fragment it built is non-empty,
   and then its option holds the first element of that enum; with an empty
   enum the step answers 200 with proceed true and leaves its option and
   everything downstream of it as the request sent them.  The project step
   never goes on and answers proceed true.  So every request ends with one
   response, after at most three steps. *)
StepOrder == <<"account", "organization", "project">>

\* the wizard steps that ran, without the marks of the preview and echo
\* branches
WizardSteps == SelectSeq(response.steps, LAMBDA x : x \in Range(StepOrder))

\* the step the event names
EntryStep ==
    IF request.body.event \in {"preview", "option-change:account"} THEN "account"
    ELSE IF request.body.event = "option-change:organization" THEN "organization"
    ELSE "project"

\* the option, and the schema fragment, the i-th step of the order builds
OptionOf(i) == OptionNames[i]

\* option k is in the response as the request sent it (or left it out)
OptionAsSent(k) ==
    /\ k \in DOMAIN response.install.options <=> k \in DOMAIN request.body.install.options
    /\ k \in DOMAIN response.install.options =>
           response.install.options[k] = request.body.install.options[k]

\* fragment k is in the response as the request sent it (or left it out)
FragmentAsSent(k) ==
    /\ k \in DOMAIN response.install.schema <=> k \in DOMAIN request.body.install.schema
    /\ k \in DOMAIN response.install.schema =>
           response.install.schema[k] = request.body.install.schema[k]

C13_CascadeDiscipline ==
    Responded =>
        /\ response.raised = ""
        /\ response.status \in {200, 400, 401}
        /\ Len(WizardSteps) <= 3
        /\ WizardSteps # <<>> =>
               LET first == Idx(StepOrder, WizardSteps[1])
                   last == first + Len(WizardSteps) - 1
               IN /\ WizardSteps[1] = EntryStep
                  /\ last <= 3
                  /\ WizardSteps = SubSeq(StepOrder, first, last)
                  /\ response.status = 200
                  /\ response.proceed = "true"
                  /\ \A i \in first..last :
                         LET enum == response.install.schema[OptionOf(i)].enum
                         IN /\ i < last <=> (enum # <<>> /\ i < 3)
                            /\ enum # <<>> =>
                                   response.install.options[OptionOf(i)] = enum[1]
                            /\ enum = <<>> =>
                                   /\ OptionAsSent(OptionOf(i))
                                   /\ \A j \in (i + 1)..3 :
                                          /\ OptionAsSent(OptionOf(j))
                                          /\ FragmentAsSent(OptionOf(j))

-----------------------------------------------------------------------------
(* C14: Order of request processing.  The handler goes through its stages
   in the order parse, token, signature header, variant header, select
   secret, test-secret guard, verify, dispatch (the token stage only for a
   caller without a session): the stages a request went through are always
   a prefix of that order.  When a response is returned, the last stage
   reached is the first one the request fails, the response is the 400 of
   that stage with that stage's error tag and nothing of a later stage has
   happened (no key selected, nothing verified, no step run); a request
   that fails none reaches the dispatch.  The token upgrade comes before
   the signature is verified and does not depend on it: a token that
   resolves makes the request the token user's even when the signature is
   refused. *)
ExpectedOrder ==
    IF request.user = Anon THEN StageNames
    ELSE SelectSeq(StageNames, LAMBDA x : x # "token")

\* the first stage the request fails, from the request alone; "dispatch"
\* when it fails none
FirstFailing ==
    IF request.body.json = "malformed" THEN "parse"
    ELSE IF ~request.signature.sent \/ request.signature.hex = <<>>
    THEN "signature-header"
    ELSE IF request.variant \in {Absent, ""} THEN "variant-header"
    ELSE IF request.variant \notin {"test", "1"} THEN "select-secret"
    ELSE IF request.variant = "test" /\ request.body.app_id \notin {"", "local"}
    THEN "test-guard"
    ELSE IF ~SignatureMatches THEN "verify"
    ELSE "dispatch"

TagOf(stage) ==
    IF stage = "parse" THEN InvalidJson
    ELSE IF stage \in {"signature-header", "verify"} THEN InvalidSignature
    ELSE InvalidVariant

LastStage == response.stages[Len(response.stages)]

C14_StageOrder ==
    Responded =>
        /\ response.stages # <<>>
        /\ response.stages = SubSeq(ExpectedOrder, 1, Len(response.stages))
        /\ response.raised = "" =>
               /\ LastStage = FirstFailing
               /\ LastStage # "dispatch" =>
                      /\ response.status = 400
                      /\ response.errors = <<TagOf(LastStage)>>
                      /\ response.steps = <<>>
                      /\ response.lookups = <<>>
                      /\ ~response.verified
               /\ LastStage = "dispatch" =>
                      /\ response.status \in {200, 401}
                      /\ response.errors = <<>>
                      /\ response.verified
               /\ response.key # Absent <=> "test-guard" \in Range(response.stages)
        /\ (/\ request.user = Anon
            /\ request.body.json = "object"
            /\ request.body.token = GoodToken) =>
               /\ response.user = TheUser
               /\ response.token_consulted

\* a caller without a session sent a token that resolves and a signature
\* that verify refuses: the request was refused at the verify stage, as the
\* token's user
C14_Witness ==
    /\ Responded
    /\ request.user = Anon
    /\ request.body.token = GoodToken
    /\ request.variant = "1"
    /\ request.signature.sent
    /\ ~SignatureMatches
    /\ response.status = 400
    /\ response.errors = <<InvalidSignature>>
    /\ LastStage = "verify"
    /\ response.user = TheUser

-----------------------------------------------------------------------------
(* C15: Total response.  For every request whose body parses as JSON (any
   JSON value; with or without the keys install, install.schema.properties,
   install.options, app, authentications) the handler returns a response
   with status 200, 400 or 401; no exception is raised out of it. *)
C15_TotalResponse ==
    (Responded /\ request.body.json # "malformed") =>
        /\ response.raised = ""
        /\ response.status \in {200, 400, 401}

-----------------------------------------------------------------------------
(* C16: Visibility and chain consistency.  In every response that carries
   the install payload, each value of an 'organization' enum the handler
   built is the id of an organization the caller sees; each value of a
   'project' enum it built is the id of a project the caller sees in the
   organization install.options.organization names; each value of a 'dsn'
   enum it built is the DSN of a key of the project install.options.project
   names within that organization; every option the handler set is an
   element of the enum of the fragment of the same name.  A caller who is
   not authenticated gets back the payload as sent.  So no request obtains
   ids or DSNs from outside what the caller sees, whatever ids it puts in
   install.options. *)

\* the visible organizations that orgText names (at most one)
VisibleOrgsNamed(orgText) ==
    {o \in Range(directory.orgs) : text_type(o) = orgText}

\* the visible projects of the visible organization orgText names
VisibleProjectsIn(orgText) ==
    UNION {Range(directory.projects[o]) : o \in VisibleOrgsNamed(orgText)}

\* the DSNs of the keys of the project projText names, when it is a
\* visible project of the visible organization orgText names
VisibleDsns(orgText, projText) ==
    UNION {{get_dsn(KeysOfProject(directory, q)[i]) : i \in 1..directory.nkeys[q]} :
              q \in {x \in VisibleProjectsIn(orgText) : text_type(x) = projText}}

\* the handler changed option k, or added it
OptionSet(k) ==
    /\ k \in DOMAIN response.install.options
    /\ (k \in DOMAIN request.body.install.options =>
            response.install.options[k] # request.body.install.options[k])

C16_Visibility ==
    (Responded /\ response.hasInstall) =>
        LET opts == response.install.options
            sch == response.install.schema
            ran == Range(response.steps)
        IN /\ "account" \in ran =>
                  Range(sch["organization"].enum) \subseteq VisibleOrgTexts
           /\ "organization" \in ran =>
                  Range(sch["project"].enum) \subseteq
                      IF "organization" \in DOMAIN opts
                      THEN {text_type(q) : q \in VisibleProjectsIn(opts["organization"])}
                      ELSE {}
           /\ "project" \in ran =>
                  Range(sch["dsn"].enum) \subseteq
                      IF {"organization", "project"} \subseteq DOMAIN opts
                      THEN VisibleDsns(opts["organization"], opts["project"])
                      ELSE {}
           /\ \A i \in 1..3 :
                  LET k == OptionNames[i]
                  IN /\ OptionSet(k) =>
                            /\ StepOrder[i] \in ran
                            /\ opts[k] \in Range(sch[k].enum)
                     /\ (StepOrder[i] \in ran /\ sch[k].enum # <<>>) =>
                            opts[k] \in Range(sch[k].enum)
           /\ ~is_authenticated(response.user) =>
                  response.install = request.body.install

\* the project step was asked for the keys of a project that has keys, in
\* an organization the caller does not see, and gave none
C16_Witness ==
    /\ Responded
    /\ ValidlySigned
    /\ AuthenticatedCaller
    /\ request.body.event = "option-change:project"
    /\ request.body.install.options = [organization |-> "2", project |-> "21"]
    /\ directory.orgs = <<1>>
    /\ directory.projects[2] = <<21>>
    /\ directory.nkeys[21] = MaxKeys
    /\ response.status = 200
    /\ response.install.schema["dsn"].enum = <<>>
    /\ "dsn" \notin DOMAIN response.install.options

-----------------------------------------------------------------------------
(* C17: No stale downstream selection.  In every 200 response a wizard step
   produced, install.options.project, if present, is the id of a visible
   project of the organization install.options.organization names, and
   install.options.dsn, if present, is the DSN of a key of the project
   install.options.project names; also when the request carried project
   and dsn options from an earlier round and the step halted on an empty
   enum. *)
ProjectConsistent ==
    /\ "organization" \in DOMAIN response.install.options
    /\ response.install.options["project"] \in
           {text_type(q) :
               q \in VisibleProjectsIn(response.install.options["organization"])}

DsnConsistent ==
    /\ {"organization", "project"} \subseteq DOMAIN response.install.options
    /\ response.install.options["dsn"] \in
           VisibleDsns(response.install.options["organization"],
                       response.install.options["project"])

StepResponse == Responded /\ response.status = 200 /\ WizardSteps # <<>>

C17_NoStaleSelection ==
    StepResponse =>
        /\ "project" \in DOMAIN response.install.options => ProjectConsistent
        /\ "dsn" \in DOMAIN response.install.options => DsnConsistent

(* C17, amended: in every 200 response a wizard step produced, a project or
   dsn option is consistent with the selection upstream of it whenever a
   step of this request set it; an option that no step of this request set
   (its step did not run, or halted on an empty enum) is returned as the
   request sent it, consistent or not. *)
C17_NoStaleSelectionSet ==
    StepResponse =>
        /\ "project" \in DOMAIN response.install.options =>
               \/ ProjectConsistent
               \/ /\ OptionAsSent("project")
                  /\ ~("organization" \in Range(response.steps)
                       /\ response.install.schema["project"].enum # <<>>)
        /\ "dsn" \in DOMAIN response.install.options =>
               \/ DsnConsistent
               \/ /\ OptionAsSent("dsn")
                  /\ ~("project" \in Range(response.steps)
                       /\ response.install.schema["dsn"].enum # <<>>)
        /\ ("organization" \in Range(response.steps)
            /\ response.install.schema["project"].enum # <<>>) => ProjectConsistent
        /\ ("project" \in Range(response.steps)
            /\ response.install.schema["dsn"].enum # <<>>) => DsnConsistent

\* the account step halted for a caller who sees no organization, on a
\* request that carried the selections of an earlier round: they came back
\* as sent, naming an organization and a project the caller does not see
C17_Witness ==
    /\ Responded
    /\ ValidlySigned
    /\ AuthenticatedCaller
    /\ request.body.event = "option-change:account"
    /\ request.body.install.options =
           [organization |-> "1", project |-> "11", dsn |-> "stale-dsn"]
    /\ directory.orgs = <<>>
    /\ response.status = 200
    /\ response.steps = <<"account">>
    /\ response.install.options = request.body.install.options
    /\ ~ProjectConsistent
    /\ ~DsnConsistent

====
